---- MODULE Spec2Model ----
(***************************************************************************)
(* A model of the WhatsApp sender: the single-message dispatcher           *)
(* (whatsapp_sender.send_message / send_instant_message), the bulk run     *)
(* (whatsapp_sender.send_bulk_messages), the one-shot and recurring        *)
(* scheduler (scheduler.py) and the message log.                           *)
(*                                                                         *)
(* Strings are sequences of one-character strings.  The wall clock is the  *)
(* number of seconds elapsed since a Monday 00:00:00.                      *)
(***************************************************************************)
EXTENDS Integers, Sequences, FiniteSets, TLC

VARIABLES
    clock,      \* the wall clock, seconds since Monday 00:00:00
    log,        \* the lines of config.LOG_FILE, oldest first
    calls,      \* the calls made to the delivery channel (pywhatkit), oldest first
    last,       \* the top-level call that returned last: its arguments and its result
    ncalls,     \* the number of top-level calls made so far
    bulk,       \* the frame of the running send_bulk_messages call
    sched,      \* the schedule table and the polling loop of scheduler.py
    store       \* the ContactManager: its contacts, its file and the call it ran last

vars == <<clock, log, calls, last, ncalls, bulk, sched, store>>

----------------------------------------------------------------------------
(* Bounds of the model.                                                    *)

\* the longest raw phone string tried on the single-call paths
MaxPhoneLen == 2
\* the number of top-level calls one run of Spec makes
MaxCalls == 1
\* the most rows the contacts file of a bulk run holds
MaxRecipients == 3
\* the polling loop is followed until this many jobs have fired
MaxFirings == 2
\* the most rows of the contacts file at start, and of an imported sheet
MaxRows == 2

----------------------------------------------------------------------------
(* config.py                                                               *)

WAIT_TIME == 15
CLOSE_TIME == 3
DEFAULT_COUNTRY_CODE == <<"+", "9", "1">>

----------------------------------------------------------------------------
(* Strings.                                                                *)

\* str.startswith
StartsWith(s, prefix) ==
    /\ Len(s) >= Len(prefix)
    /\ SubSeq(s, 1, Len(prefix)) = prefix

\* str.replace(old, new), old not empty: every occurrence, left to right
RECURSIVE Replace(_, _, _)
Replace(s, old, new) ==
    IF s = <<>> THEN <<>>
    ELSE IF StartsWith(s, old)
         THEN new \o Replace(SubSeq(s, Len(old) + 1, Len(s)), old, new)
         ELSE <<Head(s)>> \o Replace(Tail(s), old, new)

\* the sequences of length at most n of members of S
RECURSIVE SeqsUpTo(_, _)
SeqsUpTo(S, n) ==
    IF n = 0 THEN {<<>>}
    ELSE LET fewer == SeqsUpTo(S, n - 1)
         IN  fewer \cup {Append(q, x) : q \in fewer, x \in S}

\* the strings over alphabet of length at most n
RECURSIVE StringsUpTo(_, _)
StringsUpTo(alphabet, n) ==
    IF n = 0 THEN {<<>>}
    ELSE LET shorter == StringsUpTo(alphabet, n - 1)
         IN  shorter \cup {Append(s, c) : s \in shorter, c \in alphabet}

----------------------------------------------------------------------------
(* The wall clock: datetime.now().                                         *)

SecondsPerMinute == 60 * 1
SecondsPerHour == 60 * 60
SecondsPerDay == 24 * 60 * 60

\* datetime.now().hour, .minute and .weekday() at clock value c
NowHour(c) == (c \div SecondsPerHour) % 24
NowMinute(c) == (c \div SecondsPerMinute) % 60
NowWeekday(c) == (c \div SecondsPerDay) % 7

\* the clock value of weekday d (0 = Monday), h:m:s
At(d, h, m, s) == d * SecondsPerDay + h * SecondsPerHour + m * SecondsPerMinute + s

\* a wall-clock time of day
ValidTime(h, m) == h \in 0..23 /\ m \in 0..59

----------------------------------------------------------------------------
(* The delivery channel: pywhatkit.                                        *)

\* the reasons the channel gives for a failure: str(e)
Reasons == {"session timeout", "no internet"}

\* what the environment lets a channel call do
Outcomes ==
    {[ok |-> TRUE, reason |-> "none"]} \cup {[ok |-> FALSE, reason |-> r] : r \in Reasons}

\* kit.sendwhatmsg refuses a time that is no time of day, whatever the environment
sendwhatmsg(h, m, env) ==
    IF ValidTime(h, m) THEN env ELSE [ok |-> FALSE, reason |-> "Invalid Time Format!"]

\* the first instant at or after now that reads h:m:00
NextOccurrence(now, h, m) ==
    LET midnight == now - (now % SecondsPerDay)
        target == midnight + h * SecondsPerHour + m * SecondsPerMinute
    IN  IF target >= now THEN target ELSE target + SecondsPerDay

\* the instant kit.sendwhatmsg transmits the message: when the clock reads
\* h:m:00; -1 when it raises instead
sendwhatmsg_sends(now, h, m, out) ==
    IF out.ok THEN NextOccurrence(now, h, m) ELSE -1

\* the clock when kit.sendwhatmsg returns: it sends at h:m:00 and closes the tab
\* close_time seconds later; a failure is raised at once
sendwhatmsg_returns(now, h, m, out, close_time) ==
    IF out.ok THEN NextOccurrence(now, h, m) + close_time ELSE now

\* the clock when kit.sendwhatmsg_instantly returns
sendwhatmsg_instantly_returns(now, out) ==
    IF out.ok THEN now + WAIT_TIME + CLOSE_TIME ELSE now

----------------------------------------------------------------------------
(* whatsapp_sender.py: send_message, send_instant_message, log_message.    *)

\* the length message[:50] cuts the logged message to
LogMessageCut == 50

\* log_message: the line appended to the log file
log_message(phone, message, status, now) ==
    [timestamp |-> now,
     phone |-> phone,
     status |-> status,
     message |-> SubSeq(message, 1, IF Len(message) < LogMessageCut
                                    THEN Len(message) ELSE LogMessageCut)
                 \o <<".", ".", ".">>]

\* send_message: "Ensure phone number has country code"
NormalizeSend(phone_number) ==
    IF ~StartsWith(phone_number, <<"+">>)
    THEN DEFAULT_COUNTRY_CODE \o phone_number
    ELSE phone_number

\* send_message: "Get current time and add 2 minutes"
TargetTime(now) ==
    LET tHour == NowHour(now)
        tMinute == NowMinute(now) + 2
    IN  IF tMinute >= 60
        THEN [hour |-> tHour + 1, minute |-> tMinute - 60]
        ELSE [hour |-> tHour, minute |-> tMinute]

\* C8 mutant: a status that drops the channel's reason
C8_Mutant_SendStatus(out) ==
    IF out.ok THEN <<"SUCCESS">> ELSE <<"FAILED">>

\* send_message: the status it logs for the channel's outcome
SendStatus(out) ==
    IF out.ok THEN <<"SUCCESS">> ELSE <<"FAILED: ", out.reason>>

\* send_message: the lines it appends to the log for the channel's outcome
SendLogged(phone, message, out, now) ==
    <<log_message(phone, message, SendStatus(out), now)>>

\* send_message: how it ends for the channel's outcome
SendReturn(out) ==
    IF out.ok THEN "True" ELSE "False"

\* send_message(phone_number, message) called at clock value now, the
\* environment allowing env: the channel call it makes, the lines it logs,
\* how it ends ("True", "False" or "raise") and the clock when it ends
send_message(phone_number, message, now, env) ==
    LET smPhone == NormalizeSend(phone_number)
        smAt == TargetTime(now)
        smOut == sendwhatmsg(smAt.hour, smAt.minute, env)
        smEnd == sendwhatmsg_returns(now, smAt.hour, smAt.minute, smOut, CLOSE_TIME)
    IN  [call |-> [fn |-> "sendwhatmsg", by |-> "send_message", raw |-> phone_number,
                   phone |-> smPhone, message |-> message,
                   hour |-> smAt.hour, minute |-> smAt.minute,
                   at |-> now, out |-> smOut, asked |-> <<>>,
                   sent |-> sendwhatmsg_sends(now, smAt.hour, smAt.minute, smOut)],
         logged |-> SendLogged(smPhone, message, smOut, smEnd),
         ret |-> SendReturn(smOut),
         end |-> smEnd]

\* C7 mutant: a path that prefixes the country code whatever the phone
C7_Mutant_NormalizeInstant(phone_number) ==
    DEFAULT_COUNTRY_CODE \o phone_number

\* send_instant_message: the country code
NormalizeInstant(phone_number) ==
    IF ~StartsWith(phone_number, <<"+">>)
    THEN DEFAULT_COUNTRY_CODE \o phone_number
    ELSE phone_number

\* send_instant_message(phone_number, message)
send_instant_message(phone_number, message, now, env) ==
    LET siPhone == NormalizeInstant(phone_number)
    IN  [call |-> [fn |-> "sendwhatmsg_instantly", by |-> "send_instant_message",
                   raw |-> phone_number, phone |-> siPhone, message |-> message,
                   hour |-> -1, minute |-> -1, at |-> now, out |-> env, asked |-> <<>>,
                   sent |-> IF env.ok THEN now + WAIT_TIME ELSE -1],
         logged |-> <<>>,
         ret |-> IF env.ok THEN "True" ELSE "False",
         end |-> sendwhatmsg_instantly_returns(now, env)]

----------------------------------------------------------------------------
(* scheduler.py: schedule_message.                                         *)

\* schedule_message: the country code
NormalizeSchedule(phone_number) ==
    IF ~StartsWith(phone_number, <<"+">>)
    THEN DEFAULT_COUNTRY_CODE \o phone_number
    ELSE phone_number

\* C11 mutant: a schedule_message that targets the current minute
C11_Mutant_ScheduleTarget(hour, minute, now) ==
    [hour |-> NowHour(now), minute |-> NowMinute(now)]

\* schedule_message: the time it hands to kit.sendwhatmsg
ScheduleTarget(hour, minute, now) ==
    [hour |-> hour, minute |-> minute]

\* C9 mutant: schedule_message without its except clause
C9_Mutant_ScheduleReturn(out) ==
    IF out.ok THEN "True" ELSE "raise"

\* schedule_message: how it ends for the channel's outcome
ScheduleReturn(out) ==
    IF out.ok THEN "True" ELSE "False"

\* schedule_message(phone_number, message, hour, minute); by names the caller.
\* kit.sendwhatmsg is called without close_time, so its default of 3 applies.
schedule_message(phone_number, message, hour, minute, now, env, by) ==
    LET scPhone == NormalizeSchedule(phone_number)
        scAt == ScheduleTarget(hour, minute, now)
        scOut == sendwhatmsg(scAt.hour, scAt.minute, env)
    IN  [call |-> [fn |-> "sendwhatmsg", by |-> by, raw |-> phone_number,
                   phone |-> scPhone, message |-> message,
                   hour |-> scAt.hour, minute |-> scAt.minute, at |-> now,
                   out |-> scOut, asked |-> <<hour, minute>>,
                   sent |-> sendwhatmsg_sends(now, scAt.hour, scAt.minute, scOut)],
         logged |-> <<>>,
         ret |-> ScheduleReturn(scOut),
         end |-> sendwhatmsg_returns(now, scAt.hour, scAt.minute, scOut, 3)]

----------------------------------------------------------------------------
(* Inputs.                                                                 *)

\* the raw phone strings tried: every string of "+" and "9" up to MaxPhoneLen
Phones == StringsUpTo({"+", "9"}, MaxPhoneLen)

\* a short message
MsgHello == <<"H", "e", "l", "l", "o">>

\* the clock values a run starts at: mid-morning, the last two minutes of an
\* hour and the last three minutes of a day
StartClocks ==
    {At(0, 10, 0, 0), At(0, 10, 58, 30), At(0, 10, 59, 5),
     At(0, 23, 57, 0), At(0, 23, 58, 20), At(0, 23, 59, 10)}

\* the hour and minute arguments tried for schedule_message
ScheduleTimes == {<<11, 0>>, <<0, 1>>}

\* what the log file may hold when a run starts: nothing, or a line of an
\* earlier run (the file is opened for appending)
OldLogs ==
    {<<>>, <<log_message(<<"+", "9", "1", "9">>, MsgHello, <<"SUCCESS">>, 0)>>}

NoCall == [op |-> "none", phone |-> <<>>, ret |-> "none", at |-> 0]
NoBulk == [pc |-> "idle", log0 |-> 0]
NoSched == [pc |-> "idle", jobs |-> <<>>, fired |-> <<>>]
NoStore == [op |-> "none"]

----------------------------------------------------------------------------
(* Spec: a process that calls the single-message entry points.             *)

\* the bookkeeping common to the top-level calls: r is what the call did
Returned(op, phone_number, r) ==
    /\ calls' = Append(calls, r.call)
    /\ log' = log \o r.logged
    /\ clock' = r.end
    /\ last' = [op |-> op, phone |-> phone_number, ret |-> r.ret, at |-> clock]
    /\ ncalls' = ncalls + 1

SendMessage ==
    /\ ncalls < MaxCalls
    /\ \E phone_number \in Phones, env \in Outcomes :
          Returned("send_message", phone_number,
                   send_message(phone_number, MsgHello, clock, env))
    /\ UNCHANGED <<bulk, sched, store>>

SendInstantMessage ==
    /\ ncalls < MaxCalls
    /\ \E phone_number \in Phones, env \in Outcomes :
          Returned("send_instant_message", phone_number,
                   send_instant_message(phone_number, MsgHello, clock, env))
    /\ UNCHANGED <<bulk, sched, store>>

ScheduleMessage ==
    /\ ncalls < MaxCalls
    /\ \E phone_number \in Phones, env \in Outcomes, hm \in ScheduleTimes :
          Returned("schedule_message", phone_number,
                   schedule_message(phone_number, MsgHello, hm[1], hm[2], clock, env,
                                    "schedule_message"))
    /\ UNCHANGED <<bulk, sched, store>>

Init ==
    /\ clock \in StartClocks
    /\ log \in OldLogs
    /\ calls = <<>>
    /\ last = NoCall
    /\ ncalls = 0
    /\ bulk = NoBulk
    /\ sched = NoSched
    /\ store = NoStore

Next ==
    \/ SendMessage
    \/ SendInstantMessage
    \/ ScheduleMessage

Spec == Init /\ [][Next]_vars

----------------------------------------------------------------------------
(* whatsapp_sender.py: send_bulk_messages.                                 *)

\* a value of a cell of the contacts file as pandas reads it: a str, or the
\* float nan of an empty cell; s is what str() makes of it
PyStr(s) == [py |-> "str", s |-> s]
NaN == [py |-> "float", s |-> <<"n", "a", "n">>]

Friend == <<"F", "r", "i", "e", "n", "d">>
NamePlaceholder == <<"{", "n", "a", "m", "e", "}">>

\* the seconds slept between two rows
PacingInterval == 30

\* row.get('name', 'Friend'): the default only when the row has no such key
RowName(row) ==
    IF "name" \in DOMAIN row THEN row["name"] ELSE PyStr(Friend)

\* str(row['phone'])
RowPhone(row) == row["phone"].s

\* message.replace("{name}", name) raises TypeError when name is no str
ReplaceRaises(name, personalize) ==
    personalize /\ name.py # "str"

\* "Personalize message if enabled"
CurrentMessage(message, name, personalize) ==
    IF personalize THEN Replace(message, NamePlaceholder, name.s) ELSE message

\* C18 mutant: a detail that reads "success" whatever send_message returned
C18_Mutant_BulkRecord(results, name, phone, success) ==
    [success |-> results.success + (IF success THEN 1 ELSE 0),
     failed |-> results.failed + (IF success THEN 0 ELSE 1),
     details |-> Append(results.details,
                        [name |-> name, phone |-> phone, status |-> "success"])]

\* the counts and the detail recorded for a row whose send_message returned
\* success
BulkRecord(results, name, phone, success) ==
    [success |-> results.success + (IF success THEN 1 ELSE 0),
     failed |-> results.failed + (IF success THEN 0 ELSE 1),
     details |-> Append(results.details,
                        [name |-> name, phone |-> phone,
                         status |-> IF success THEN "success" ELSE "failed"])]

\* "Wait between messages": whether the row at index is followed by a sleep
BulkPaces(index, total) == index < total - 1

\* C15 mutant: one time taken at the first turn and used for the whole batch
C15_Mutant_BulkTurnClock(current, frame) ==
    IF frame.turns = <<>> THEN current ELSE frame.turns[1]

\* the clock send_message reads in a turn of the loop: datetime.now() is
\* called inside send_message, at each call
BulkTurnClock(current, frame) == current

\* C19 mutant: an except clause that lets the exception out
C19_Mutant_BulkExcept(frame, error) ==
    [frame EXCEPT !.pc = "raised", !.error = error]

\* "except Exception as e: ... return results": the call ends with the
\* results gathered so far
BulkExcept(frame, error) ==
    [frame EXCEPT !.pc = "done", !.error = error]

\* the frame of a call that has not started its loop
BulkFrame(df, message, personalize, log0) ==
    [pc |-> "call", df |-> df, message |-> message, personalize |-> personalize,
     index |-> 0, results |-> [success |-> 0, failed |-> 0, details |-> <<>>],
     sleeps |-> 0, error |-> "none", log0 |-> log0, turns |-> <<>>]

\* pd.read_csv succeeds: the loop starts
BulkLoad ==
    /\ bulk.pc = "call"
    /\ bulk.df.readable
    /\ bulk' = [bulk EXCEPT !.pc = "loop"]
    /\ UNCHANGED <<clock, log, calls, last, ncalls, sched, store>>

\* pd.read_csv raises: the except clause returns the results as they are
BulkLoadFails ==
    /\ bulk.pc = "call"
    /\ ~bulk.df.readable
    /\ bulk' = BulkExcept(bulk, "load")
    /\ UNCHANGED <<clock, log, calls, last, ncalls, sched, store>>

\* one turn of the loop for a row whose message can be built: send_message,
\* the counts, the detail and the pacing sleep.  An exception out of
\* send_message would reach the except clause
BulkSendRow ==
    /\ bulk.pc = "loop"
    /\ bulk.index < Len(bulk.df.rows)
    /\ LET row == bulk.df.rows[bulk.index + 1]
           name == RowName(row)
           phone == RowPhone(row)
           total == Len(bulk.df.rows)
       IN  /\ ~ReplaceRaises(name, bulk.personalize)
           /\ \E env \in Outcomes :
                LET r == send_message(phone,
                                      CurrentMessage(bulk.message, name, bulk.personalize),
                                      BulkTurnClock(clock, bulk), env)
                    paces == BulkPaces(bulk.index, total)
                IN  /\ calls' = Append(calls, r.call)
                    /\ log' = log \o r.logged
                    /\ IF r.ret = "raise"
                       THEN /\ bulk' = BulkExcept([bulk EXCEPT !.turns = Append(@, clock)],
                                                   "send")
                            /\ clock' = r.end
                       ELSE /\ bulk' = [bulk EXCEPT
                                 !.results = BulkRecord(@, name, phone, r.ret = "True"),
                                 !.turns = Append(@, clock),
                                 !.sleeps = @ + (IF paces THEN 1 ELSE 0),
                                 !.index = @ + 1]
                            /\ clock' = r.end + (IF paces THEN PacingInterval ELSE 0)
    /\ UNCHANGED <<last, ncalls, sched, store>>

\* one turn of the loop for a row whose message cannot be built: the
\* TypeError of str.replace reaches the except clause, which returns the
\* results gathered so far
BulkRowRaises ==
    /\ bulk.pc = "loop"
    /\ bulk.index < Len(bulk.df.rows)
    /\ ReplaceRaises(RowName(bulk.df.rows[bulk.index + 1]), bulk.personalize)
    /\ bulk' = BulkExcept(bulk, "row")
    /\ UNCHANGED <<clock, log, calls, last, ncalls, sched, store>>

\* the loop is over: return results
BulkReturn ==
    /\ bulk.pc = "loop"
    /\ bulk.index = Len(bulk.df.rows)
    /\ bulk' = [bulk EXCEPT !.pc = "done"]
    /\ UNCHANGED <<clock, log, calls, last, ncalls, sched, store>>

\* the name and phone cells tried
NameCells == {PyStr(<<"A", "n", "n">>), NaN}
PhoneCells == {PyStr(<<"+", "9", "1", "7">>), PyStr(<<"8">>)}

\* the rows of a file with the columns name and phone, and of one with the
\* column phone alone
NamedRows == {[name |-> n, phone |-> p] : n \in NameCells, p \in PhoneCells}
BareRows == {[phone |-> p] : p \in PhoneCells}

\* the contacts files tried: unreadable, or up to MaxRecipients rows
DataFrames ==
    {[readable |-> FALSE, rows |-> <<>>]}
    \cup {[readable |-> TRUE, rows |-> q] : q \in SeqsUpTo(NamedRows, MaxRecipients)}
    \cup {[readable |-> TRUE, rows |-> q] : q \in SeqsUpTo(BareRows, MaxRecipients)}

MsgHiName == <<"H", "i", " ">> \o NamePlaceholder
Templates == {MsgHello, MsgHiName}

BulkStartClocks == {At(0, 10, 0, 0), At(0, 23, 57, 40)}

InitBulk ==
    /\ clock \in BulkStartClocks
    /\ log \in OldLogs
    /\ calls = <<>>
    /\ last = NoCall
    /\ ncalls = 0
    /\ \E df \in DataFrames, message \in Templates, personalize \in BOOLEAN :
          bulk = BulkFrame(df, message, personalize, Len(log))
    /\ sched = NoSched
    /\ store = NoStore

NextBulk ==
    \/ BulkLoad
    \/ BulkLoadFails
    \/ BulkSendRow
    \/ BulkRowRaises
    \/ BulkReturn

SpecBulk == InitBulk /\ [][NextBulk]_vars

\* the rows of a bulk run that has returned after reading its file
BulkDone == bulk.pc = "done" /\ bulk.df.readable

\* C1 (as claimed): a bulk run over a non-empty file returns counts that add
\* up to the number of rows and one detail per row, the i-th for the i-th row.
C1_CountsAndDetailsCoverInput ==
    (BulkDone /\ Len(bulk.df.rows) > 0) =>
        /\ bulk.results.success + bulk.results.failed = Len(bulk.df.rows)
        /\ Len(bulk.results.details) = Len(bulk.df.rows)
        /\ \A i \in DOMAIN bulk.results.details :
              bulk.results.details[i].phone = RowPhone(bulk.df.rows[i])

\* C2 (as claimed): when the delivery to a row fails, every later row is
\* still dispatched and the run ends with the failure counted.
C2_FailureNeverAborts ==
    BulkDone =>
        \A i \in DOMAIN bulk.results.details :
            bulk.results.details[i].status = "failed" =>
                /\ bulk.results.failed >= 1
                /\ Len(calls) = Len(bulk.df.rows)
                /\ Len(bulk.results.details) = Len(bulk.df.rows)

\* C3 (as claimed): each send_message of the run appends one line to the
\* log, so a bulk run over N rows appends N lines.
C3_OneLogLinePerRecipient ==
    /\ Len(log) - bulk.log0 = Len(calls)
    /\ BulkDone => Len(log) - bulk.log0 = Len(bulk.df.rows)

\* whether a row has no name: the file has no name column, or the cell is empty
RowHasNoName(row) == "name" \notin DOMAIN row \/ row["name"] = NaN

\* C12 (as claimed): a sleep of the fixed interval follows every recorded
\* result but the last, so that consecutive dispatches are one sleep apart
\* and a run over N >= 1 rows sleeps N - 1 times.
C12_OneSleepBetweenDispatches ==
    /\ bulk.sleeps <= Len(bulk.results.details)
    /\ \A i \in DOMAIN calls :
          i > 1 => calls[i].at >= calls[i - 1].at + PacingInterval
    /\ (BulkDone /\ Len(bulk.df.rows) >= 1) => bulk.sleeps = Len(bulk.df.rows) - 1

\* C13 (as claimed): under personalize, a row with no name is dispatched with
\* the template's {name} replaced by "Friend", and the rows after it are
\* reached.
C13_MissingNameFallsBackToFriend ==
    (BulkDone /\ bulk.personalize) =>
        \A i \in DOMAIN bulk.df.rows :
            RowHasNoName(bulk.df.rows[i]) =>
                /\ i <= Len(calls)
                /\ calls[i].message = Replace(bulk.message, NamePlaceholder, Friend)
                /\ bulk.index >= i

\* C14 (as claimed): no retry: every recorded result stands for one channel
\* call, and a bulk run over N rows makes N channel calls.
C14_OneChannelCallPerRecipient ==
    /\ Len(calls) = Len(bulk.results.details)
    /\ BulkDone => Len(calls) = Len(bulk.df.rows)

\* C15: in a bulk run every dispatch targets two minutes after the clock
\* read in its own turn, and a turn starts at least the pacing interval
\* after the turn before it, once that turn's message has been sent.
C15_OwnTargetTimePerRecipient ==
    /\ Len(bulk.turns) = Len(calls)
    /\ \A i \in DOMAIN calls :
          /\ calls[i].at = bulk.turns[i]
          /\ calls[i].hour * 60 + calls[i].minute
               = NowHour(bulk.turns[i]) * 60 + NowMinute(bulk.turns[i]) + 2
          /\ i > 1 =>
                /\ bulk.turns[i] >= bulk.turns[i - 1] + PacingInterval
                /\ bulk.turns[i] >= calls[i - 1].sent + PacingInterval

\* C15 witness: the second row of a run started at 10:00:00 was dispatched
\* for 10:04, the first for 10:02.
C15_Witness ==
    /\ Len(calls) >= 2
    /\ calls[1].hour = 10 /\ calls[1].minute = 2
    /\ calls[1].out.ok
    /\ calls[2].at = At(0, 10, 2, 33)
    /\ calls[2].hour = 10 /\ calls[2].minute = 4

\* C16 (as claimed): the detail of a row whose delivery failed carries the
\* channel's reason: two failures for different reasons have different
\* statuses, and no failure has the status of a success.
C16_DetailCarriesFailureReason ==
    \A i, j \in DOMAIN bulk.results.details :
        (~calls[i].out.ok /\ calls[i].out.reason # calls[j].out.reason) =>
            bulk.results.details[i].status # bulk.results.details[j].status

\* C18: the k-th line a bulk run has appended to the log is for the phone
\* dialled for its k-th row, and reads SUCCESS exactly when the k-th detail
\* reads "success" and "FAILED: ..." exactly when it reads "failed".
C18_LogAgreesWithDetails ==
    /\ Len(log) = bulk.log0 + Len(bulk.results.details)
    /\ \A k \in DOMAIN bulk.results.details :
          LET line == log[bulk.log0 + k]
              detail == bulk.results.details[k]
          IN  /\ detail.phone = RowPhone(bulk.df.rows[k])
              /\ calls[k].raw = detail.phone
              /\ line.phone = calls[k].phone
              /\ detail.status \in {"success", "failed"}
              /\ detail.status = "success" <=> line.status = <<"SUCCESS">>
              /\ detail.status = "failed" <=> line.status[1] = "FAILED: "

\* C18 witness: a finished run of three rows, the second one failed.
C18_Witness ==
    /\ BulkDone
    /\ Len(bulk.results.details) = 3
    /\ bulk.results.details[1].status = "success"
    /\ bulk.results.details[2].status = "failed"
    /\ log[bulk.log0 + 2].status = <<"FAILED: ", "no internet">>
    /\ log[bulk.log0 + 3].status = <<"SUCCESS">>

\* C19: when the contacts file cannot be read, send_bulk_messages returns
\* (it does not raise) zero counts and no details, having made no channel
\* call, slept no pacing interval and appended nothing to the log.
C19_UnreadableFileReturnsEmpty ==
    (~bulk.df.readable /\ bulk.pc # "call") =>
        /\ bulk.pc = "done"
        /\ bulk.results = [success |-> 0, failed |-> 0, details |-> <<>>]
        /\ calls = <<>>
        /\ bulk.sleeps = 0
        /\ Len(log) = bulk.log0
        /\ clock \in BulkStartClocks

\* C19 witness: the call on an unreadable file has returned.
C19_Witness ==
    /\ ~bulk.df.readable
    /\ bulk.pc = "done"
    /\ bulk.error = "load"

----------------------------------------------------------------------------
(* scheduler.py: schedule_daily_message, schedule_weekly_message and the   *)
(* schedule table they register their jobs in.                             *)

\* the seconds the polling loop sleeps between two run_pending()
TickInterval == 60

Weekdays == <<"monday", "tuesday", "wednesday", "thursday", "friday", "saturday", "sunday">>
SecondsPerWeek == 7 * SecondsPerDay

\* the trigger schedule.every().day.at(time_str) registers
DailyTrigger(h, m) ==
    [unit |-> "days", start_day |-> "none", hour |-> h, minute |-> m]

\* the trigger getattr(schedule.every(), day.lower()).at(time_str) registers
WeeklyTrigger(day, h, m) ==
    [unit |-> "weeks", start_day |-> day, hour |-> h, minute |-> m]

\* the next run of a trigger: the first instant after now that reads its time
\* of day, on its weekday when it has one
NextRun(now, trigger) ==
    IF trigger.start_day = "none"
    THEN LET nrDay == NextOccurrence(now, trigger.hour, trigger.minute)
         IN  IF nrDay > now THEN nrDay ELSE nrDay + SecondsPerDay
    ELSE LET nrIndex == CHOOSE i \in 1..7 : Weekdays[i] = trigger.start_day
             nrWeek == (now - (now % SecondsPerWeek))
                       + At(nrIndex - 1, trigger.hour, trigger.minute, 0)
         IN  IF nrWeek > now THEN nrWeek ELSE nrWeek + SecondsPerWeek

\* .do(job) at clock value now: the entry added to the schedule table
Registered(kind, trigger, phone_number, message, now) ==
    [kind |-> kind, trigger |-> trigger, phone |-> phone_number, message |-> message,
     next_run |-> NextRun(now, trigger), last_run |-> -1, registered |-> now,
     cancelled |-> FALSE]

\* schedule_daily_message.job: the time it hands to schedule_message
DailyJobTarget(now) ==
    [hour |-> NowHour(now), minute |-> NowMinute(now) + 2]

\* schedule_daily_message.job: what it returns to the schedule table
DailyJobReturns == "None"

\* schedule_weekly_message.job: the time it hands to schedule_message
WeeklyJobTarget(now) ==
    [hour |-> NowHour(now), minute |-> NowMinute(now) + 2]

\* C10 mutant: a weekly job that asks the table to cancel it
C10_Mutant_WeeklyJobReturns == "CancelJob"

\* schedule_weekly_message.job: what it returns to the schedule table
WeeklyJobReturns == "None"

\* the schedule table runs job j of st.jobs with the environment allowing
\* env: the job body calls schedule_message; an exception leaves the table
\* as it is and ends the loop; otherwise the job gets its next run, and is
\* cancelled when the body returned CancelJob
RunJob(st, j, env) ==
    LET rjJob == st.jobs[j]
        rjAt == IF rjJob.kind = "daily" THEN DailyJobTarget(st.clock)
                ELSE WeeklyJobTarget(st.clock)
        rjRet == IF rjJob.kind = "daily" THEN DailyJobReturns ELSE WeeklyJobReturns
        rjDone == schedule_message(rjJob.phone, rjJob.message, rjAt.hour, rjAt.minute,
                                   st.clock, env, "job")
        rjFired == [job |-> j, kind |-> rjJob.kind, trigger |-> rjJob.trigger,
                    registered |-> rjJob.registered, due |-> rjJob.next_run,
                    at |-> st.clock, ret |-> rjDone.ret]
    IN  IF rjDone.ret = "raise"
        THEN [st EXCEPT !.clock = rjDone.end,
                        !.calls = Append(@, rjDone.call),
                        !.log = @ \o rjDone.logged,
                        !.fired = Append(@, rjFired),
                        !.pc = "crashed"]
        ELSE [st EXCEPT !.clock = rjDone.end,
                        !.calls = Append(@, rjDone.call),
                        !.log = @ \o rjDone.logged,
                        !.fired = Append(@, rjFired),
                        !.jobs[j].last_run = rjDone.end,
                        !.jobs[j].next_run = NextRun(rjDone.end, rjJob.trigger),
                        !.jobs[j].cancelled = (rjRet = "CancelJob")]

\* the jobs of the table that should run at now, by next run, the earlier
\* registered first among equals
RECURSIVE SortedDue(_, _)
SortedDue(jobs, left) ==
    IF left = {} THEN <<>>
    ELSE LET first == CHOOSE j \in left :
                         \A k \in left :
                            \/ jobs[j].next_run < jobs[k].next_run
                            \/ (jobs[j].next_run = jobs[k].next_run /\ j <= k)
         IN  <<first>> \o SortedDue(jobs, left \ {first})

\* run_pending(): the due jobs one after the other, until one raises
RECURSIVE RunDue(_, _, _)
RunDue(st, due, envs) ==
    IF due = <<>> \/ st.pc = "crashed" THEN st
    ELSE RunDue(RunJob(st, Head(due), Head(envs)), Tail(due), Tail(envs))

\* the jobs left in the table once the cancelled ones are dropped
RECURSIVE Kept(_)
Kept(jobs) ==
    IF jobs = <<>> THEN <<>>
    ELSE (IF Head(jobs).cancelled THEN <<>> ELSE <<Head(jobs)>>) \o Kept(Tail(jobs))

\* schedule_weekly_message(phone_number, message, day, time_str): registers
\* the job and returns
ScheduleWeekly ==
    /\ sched.pc = "start"
    /\ sched.jobs = <<>>
    /\ \E day \in {"monday", "tuesday"}, hm \in {<<10, 59>>, <<9, 30>>},
          phone_number \in {<<"9">>} :
          sched' = [sched EXCEPT !.jobs = Append(@,
                        Registered("weekly", WeeklyTrigger(day, hm[1], hm[2]),
                                   phone_number, MsgHello, clock))]
    /\ UNCHANGED <<clock, log, calls, last, ncalls, bulk, store>>

\* schedule_daily_message(phone_number, message, time_str) up to its loop:
\* registers the job
ScheduleDaily ==
    /\ sched.pc = "start"
    /\ \E hm \in {<<10, 59>>, <<9, 30>>}, phone_number \in {<<"+", "9", "1", "7">>} :
          sched' = [sched EXCEPT !.pc = "loop",
                                 !.jobs = Append(@,
                        Registered("daily", DailyTrigger(hm[1], hm[2]),
                                   phone_number, MsgHello, clock))]
    /\ UNCHANGED <<clock, log, calls, last, ncalls, bulk, store>>

\* one turn of "while True": schedule.run_pending(), then time.sleep(60)
LoopTick ==
    /\ sched.pc = "loop"
    /\ Len(sched.fired) < MaxFirings
    /\ LET due == SortedDue(sched.jobs,
                            {j \in DOMAIN sched.jobs : clock >= sched.jobs[j].next_run})
       IN  \E envs \in [1..Len(due) -> Outcomes] :
              LET st == RunDue([clock |-> clock, calls |-> calls, log |-> log,
                                jobs |-> sched.jobs, fired |-> sched.fired,
                                pc |-> "loop"], due, envs)
              IN  /\ calls' = st.calls
                  /\ log' = st.log
                  /\ sched' = [pc |-> st.pc, jobs |-> Kept(st.jobs), fired |-> st.fired]
                  /\ clock' = IF st.pc = "crashed" THEN st.clock
                              ELSE st.clock + TickInterval
    /\ UNCHANGED <<last, ncalls, bulk, store>>

SchedStartClocks == {At(0, 10, 57, 40), At(0, 9, 28, 15)}

InitSched ==
    /\ clock \in SchedStartClocks
    /\ log = <<>>
    /\ calls = <<>>
    /\ last = NoCall
    /\ ncalls = 0
    /\ bulk = NoBulk
    /\ sched = [pc |-> "start", jobs |-> <<>>, fired |-> <<>>]
    /\ store = NoStore

NextSched ==
    \/ ScheduleWeekly
    \/ ScheduleDaily
    \/ LoopTick

SpecSched == InitSched /\ [][NextSched]_vars

\* the firings so far of the jobs of a given kind
Fired(kind) == {i \in DOMAIN sched.fired : sched.fired[i].kind = kind}

\* C6 (as claimed): the time a fired daily or weekly job hands to the send
\* path is a time of day that reads the trigger instant plus two minutes.
C6_JobTargetIsNowPlusTwo ==
    \A i \in DOMAIN calls :
        calls[i].by = "job" =>
            /\ calls[i].hour \in 0..23
            /\ calls[i].minute \in 0..59
            /\ calls[i].hour * 60 + calls[i].minute
                 = (NowHour(calls[i].at) * 60 + NowMinute(calls[i].at) + 2) % (24 * 60)

\* C9: a daily job whose dispatch failed is still in the schedule table,
\* waiting for a run later than that firing, and the polling loop is still
\* running.
C9_FailedDailyJobStaysRegistered ==
    \A i \in Fired("daily") :
        sched.fired[i].ret # "True" =>
            /\ sched.pc = "loop"
            /\ \E j \in DOMAIN sched.jobs :
                  /\ sched.jobs[j].kind = "daily"
                  /\ sched.jobs[j].trigger = sched.fired[i].trigger
                  /\ ~sched.jobs[j].cancelled
                  /\ sched.jobs[j].next_run > sched.fired[i].at

\* C9 witness: the daily job fired, its dispatch failed in the channel, and
\* the loop went on to fire it again the day after.
C9_Witness ==
    /\ Len(sched.fired) = 2
    /\ sched.fired[1].kind = "daily" /\ sched.fired[1].ret = "False"
    /\ calls[1].out = [ok |-> FALSE, reason |-> "session timeout"]
    /\ sched.fired[2].kind = "daily"
    /\ sched.fired[2].at >= sched.fired[1].at + SecondsPerDay - TickInterval
    /\ sched.pc = "loop"

\* C10: a weekly job fires only once an instant on its weekday at its time,
\* later than its registration, has arrived; after the firing it is still in
\* the schedule table, waiting for a later instant on that weekday at that
\* time.
C10_WeeklyWaitsAndStaysRegistered ==
    \A i \in Fired("weekly") :
        LET f == sched.fired[i]
            onTrigger(t) ==
                /\ Weekdays[NowWeekday(t) + 1] = f.trigger.start_day
                /\ NowHour(t) = f.trigger.hour
                /\ NowMinute(t) = f.trigger.minute
        IN  /\ onTrigger(f.due)
            /\ f.registered < f.due
            /\ f.due <= f.at
            /\ \E j \in DOMAIN sched.jobs :
                  /\ sched.jobs[j].kind = "weekly"
                  /\ sched.jobs[j].trigger = f.trigger
                  /\ ~sched.jobs[j].cancelled
                  /\ sched.jobs[j].next_run > f.at
                  /\ onTrigger(sched.jobs[j].next_run)

\* C10 witness: the job registered on Monday for Tuesday 09:30 has fired on
\* Tuesday and waits for the Tuesday after.
C10_Witness ==
    \E i \in Fired("weekly") :
        /\ sched.fired[i].trigger = WeeklyTrigger("tuesday", 9, 30)
        /\ NowWeekday(sched.fired[i].at) = 1
        /\ \E j \in DOMAIN sched.jobs :
              /\ sched.jobs[j].kind = "weekly"
              /\ sched.jobs[j].next_run = sched.fired[i].due + SecondsPerWeek

----------------------------------------------------------------------------
(* Properties of the single-message entry points.                          *)

\* C4 (as claimed): every dispatch handed to kit.sendwhatmsg, a scheduler
\* dispatch (schedule_message, a daily or weekly job) included, appends one
\* entry to the message log.
C4_SchedulerDispatchIsLogged ==
    [][(/\ Len(calls') = Len(calls) + 1
        /\ calls'[Len(calls')].by \in {"send_message", "schedule_message", "job"})
       => Len(log') = Len(log) + 1]_vars

\* C5 (as claimed): the target time send_message hands to the channel is a
\* time of day, hour in 0..23 and minute in 0..59, that reads the current
\* time plus two minutes (23:59 gives 00:01, 23:58 gives 00:00).
C5_TargetIsNowPlusTwo ==
    \A i \in DOMAIN calls :
        calls[i].by = "send_message" =>
            /\ calls[i].hour \in 0..23
            /\ calls[i].minute \in 0..59
            /\ calls[i].hour * 60 + calls[i].minute
                 = (NowHour(calls[i].at) * 60 + NowMinute(calls[i].at) + 2) % (24 * 60)

\* C7: on every send path the phone handed to the channel is the raw phone
\* itself when it starts with "+", and otherwise (the empty string included)
\* the default country code followed by the raw phone.
C7_PhoneNormalization ==
    \A i \in DOMAIN calls :
        LET raw == calls[i].raw
            plus == Len(raw) > 0 /\ raw[1] = "+"
        IN  /\ plus => calls[i].phone = raw
            /\ ~plus => /\ Len(calls[i].phone) = Len(raw) + 3
                        /\ SubSeq(calls[i].phone, 1, 3) = <<"+", "9", "1">>
                        /\ SubSeq(calls[i].phone, 4, Len(calls[i].phone)) = raw

\* C7 witness: send_message was handed the empty string and dialled "+91".
C7_Witness ==
    \E i \in DOMAIN calls :
        /\ calls[i].by = "send_message"
        /\ calls[i].raw = <<>>
        /\ calls[i].phone = <<"+", "9", "1">>

\* C8: send_message never lets a channel failure out: when the channel fails
\* it returns False, and the line it appended to the log is for the phone it
\* dialled and reads "FAILED: " followed by the channel's reason.
C8_FailureIsLoggedAndReturned ==
    (last.op = "send_message" /\ ~calls[Len(calls)].out.ok) =>
        /\ last.ret = "False"
        /\ Len(log) > 0
        /\ log[Len(log)].phone = calls[Len(calls)].phone
        /\ log[Len(log)].status = <<"FAILED: ", calls[Len(calls)].out.reason>>

\* C8 witness: send_message has returned after the channel failed with
\* "session timeout".
C8_Witness ==
    /\ last.op = "send_message"
    /\ last.ret = "False"
    /\ calls[Len(calls)].out = [ok |-> FALSE, reason |-> "session timeout"]
    /\ log[Len(log)].status = <<"FAILED: ", "session timeout">>


\* C11: schedule_message is synchronous: a message it gets sent is sent at an
\* instant, not before the call, that reads the hour:minute asked for, and
\* the call returns only after that instant (after the failure when the
\* channel fails).
C11_ScheduleOnceWaitsAndBlocks ==
    last.op = "schedule_message" =>
        LET c == calls[Len(calls)]
        IN  /\ c.asked \in ScheduleTimes
            /\ last.ret = (IF c.out.ok THEN "True" ELSE "False")
            /\ clock >= c.at
            /\ c.out.ok =>
                  /\ c.sent >= c.at
                  /\ NowHour(c.sent) = c.asked[1]
                  /\ NowMinute(c.sent) = c.asked[2]
                  /\ clock >= c.sent

\* C11 witness: schedule_message was asked at 10:58:30 for 11:00 and has
\* returned True after 11:00:00.
C11_Witness ==
    /\ last.op = "schedule_message"
    /\ last.ret = "True"
    /\ calls[Len(calls)].at = At(0, 10, 58, 30)
    /\ calls[Len(calls)].asked = <<11, 0>>
    /\ calls[Len(calls)].sent = At(0, 11, 0, 0)
    /\ clock > At(0, 11, 0, 0)

----------------------------------------------------------------------------
(* contact_manager.py: ContactManager.                                     *)

\* the rows of frame whose phone differs from phone, in order:
\* contacts[contacts['phone'] != phone]
RECURSIVE WithoutPhone(_, _)
WithoutPhone(frame, phone) ==
    IF frame = <<>> THEN <<>>
    ELSE (IF Head(frame).phone # phone THEN <<Head(frame)>> ELSE <<>>)
         \o WithoutPhone(Tail(frame), phone)

\* C17 mutant: drop_duplicates(subset=['phone'], keep='first')
RECURSIVE C17_Mutant_DropDuplicates(_)
C17_Mutant_DropDuplicates(frame) ==
    IF frame = <<>> THEN <<>>
    ELSE <<Head(frame)>>
         \o C17_Mutant_DropDuplicates(WithoutPhone(Tail(frame), Head(frame).phone))

\* drop_duplicates(subset=['phone'], keep='last'): a row stays when no later
\* row has its phone
RECURSIVE DropDuplicates(_)
DropDuplicates(frame) ==
    IF frame = <<>> THEN <<>>
    ELSE (IF \E i \in DOMAIN Tail(frame) : Tail(frame)[i].phone = Head(frame).phone
          THEN <<>> ELSE <<Head(frame)>>)
         \o DropDuplicates(Tail(frame))

\* C20 mutant: a remove_contact that saves whether or not a row went
C20_Mutant_RemoveSaves(before, after) == TRUE

\* remove_contact: "if len(self.contacts) < initial_count"
RemoveSaves(before, after) == Len(after) < Len(before)

\* save_contacts: the file holds the contacts
Saved(contacts, file) ==
    [exists |-> TRUE, rows |-> contacts, writes |-> file.writes + 1]

\* the bookkeeping of a call: what it was given and what it found
StoreCall(op, arg, read) ==
    [op |-> op, arg |-> arg, read |-> read,
     before |-> store.contacts, fileBefore |-> store.file]

\* add_contact(name, phone, group)
AddContact ==
    /\ ncalls < MaxCalls
    /\ \E row \in [name : {"Ann", "Bob"}, phone : {"+917", "8"}, group : {"general"}] :
          LET added == Append(store.contacts, row)
          IN  store' = [contacts |-> added, file |-> Saved(added, store.file),
                        call |-> StoreCall("add_contact", <<row>>, TRUE)]
    /\ ncalls' = ncalls + 1
    /\ UNCHANGED <<clock, log, calls, last, bulk, sched>>

\* remove_contact(phone)
RemoveContact ==
    /\ ncalls < MaxCalls
    /\ \E phone \in {"+917", "8", "77"} :
          LET left == WithoutPhone(store.contacts, phone)
          IN  store' = [contacts |-> left,
                        file |-> IF RemoveSaves(store.contacts, left)
                                 THEN Saved(left, store.file) ELSE store.file,
                        call |-> StoreCall("remove_contact", phone, TRUE)]
    /\ ncalls' = ncalls + 1
    /\ UNCHANGED <<clock, log, calls, last, bulk, sched>>

\* the rows a contacts file or a sheet may hold
ContactRows == [name : {"Ann", "Bob"}, phone : {"+917", "8"}, group : {"general"}]
Frames == SeqsUpTo(ContactRows, MaxRows)

\* import_from_excel(excel_path), pd.read_excel returning sheet
ImportFromExcel ==
    /\ ncalls < MaxCalls
    /\ \E sheet \in Frames :
          LET merged == DropDuplicates(store.contacts \o sheet)
          IN  store' = [contacts |-> merged, file |-> Saved(merged, store.file),
                        call |-> StoreCall("import_from_excel", sheet, TRUE)]
    /\ ncalls' = ncalls + 1
    /\ UNCHANGED <<clock, log, calls, last, bulk, sched>>

\* import_from_excel(excel_path), pd.read_excel raising: "Import failed"
ImportFails ==
    /\ ncalls < MaxCalls
    /\ store' = [store EXCEPT !.call = StoreCall("import_from_excel", <<>>, FALSE)]
    /\ ncalls' = ncalls + 1
    /\ UNCHANGED <<clock, log, calls, last, bulk, sched>>

\* ContactManager(): the contacts are the rows of the file, none when there
\* is no file
InitStore ==
    /\ clock = 0
    /\ log = <<>>
    /\ calls = <<>>
    /\ last = NoCall
    /\ ncalls = 0
    /\ bulk = NoBulk
    /\ sched = NoSched
    /\ \E file \in {[exists |-> FALSE, rows |-> <<>>, writes |-> 0]}
                   \cup {[exists |-> TRUE, rows |-> q, writes |-> 0] : q \in Frames} :
          store = [contacts |-> file.rows, file |-> file,
                   call |-> [op |-> "__init__", arg |-> <<>>, read |-> file.exists,
                             before |-> <<>>, fileBefore |-> file]]

NextStore ==
    \/ AddContact
    \/ RemoveContact
    \/ ImportFromExcel
    \/ ImportFails

SpecStore == InitStore /\ [][NextStore]_vars

\* the k-th row of frame among those whose index is in keep, k counted from 1
KthKept(frame, keep, k) ==
    frame[CHOOSE i \in keep : Cardinality({j \in keep : j <= i}) = k]

\* C17: right after an import that read its sheet no two contacts share a
\* phone, and the contacts are the rows of the old contacts followed by the
\* sheet that are the last with their phone, in that order; right after
\* add_contact the contacts are the old ones followed by the new row,
\* whether or not its phone was there.
C17_ImportKeepsLastAddKeepsAll ==
    /\ (store.call.op = "import_from_excel" /\ store.call.read) =>
          LET all == store.call.before \o store.call.arg
              lasts == {i \in DOMAIN all :
                          \A j \in DOMAIN all : j > i => all[j].phone # all[i].phone}
          IN  /\ \A i, j \in DOMAIN store.contacts :
                    i # j => store.contacts[i].phone # store.contacts[j].phone
              /\ Len(store.contacts) = Cardinality(lasts)
              /\ \A k \in DOMAIN store.contacts :
                    store.contacts[k] = KthKept(all, lasts, k)
              /\ store.file.rows = store.contacts
    /\ store.call.op = "add_contact" =>
          /\ store.contacts = store.call.before \o store.call.arg
          /\ store.file.rows = store.contacts

\* C17 witness: Bob's row of the sheet has replaced Ann's row with the same
\* phone.
C17_Witness ==
    /\ store.call.op = "import_from_excel"
    /\ store.call.read
    /\ store.call.before = <<[name |-> "Ann", phone |-> "8", group |-> "general"]>>
    /\ store.contacts = <<[name |-> "Bob", phone |-> "8", group |-> "general"]>>

\* C17 witness of the second part: after add_contact two rows share a phone.
C17_WitnessAdd ==
    /\ store.call.op = "add_contact"
    /\ \E i, j \in DOMAIN store.contacts :
          i < j /\ store.contacts[i].phone = store.contacts[j].phone

\* C20: right after remove_contact(phone) the contacts are the old ones
\* without the rows of that phone, in their order; when no row had it the
\* contacts are unchanged and the file has not been written.
C20_RemoveDropsEveryMatch ==
    store.call.op = "remove_contact" =>
        LET old == store.call.before
            others == {i \in DOMAIN old : old[i].phone # store.call.arg}
        IN  /\ Len(store.contacts) = Cardinality(others)
            /\ \A k \in DOMAIN store.contacts :
                  store.contacts[k] = KthKept(old, others, k)
            /\ others = DOMAIN old =>
                  /\ store.contacts = old
                  /\ store.file = store.call.fileBefore
            /\ others # DOMAIN old =>
                  /\ store.file.rows = store.contacts
                  /\ store.file.writes = store.call.fileBefore.writes + 1

\* C20 witness: remove_contact("77") on contacts none of which has that
\* phone.
C20_Witness ==
    /\ store.call.op = "remove_contact"
    /\ store.call.arg = "77"
    /\ Len(store.contacts) = 2
    /\ store.file.writes = 0

====
